---- MODULE Spec2Model ----
(***************************************************************************)
(* A model of wordle.py: the GameState constraint model (check_word,       *)
(* add_guess), the guess policies pick_best_word_v1..v5, the interactive   *)
(* player of `play` and the play_game loop.                                *)
(*                                                                         *)
(* A word is a tuple of one-character strings.  Python's None in           *)
(* found_letters is the string None below, which is no letter.             *)
(***************************************************************************)
EXTENDS Integers, Sequences, FiniteSets, TLC

VARIABLES
    goal_word,        \* play_game's goal_word
    strategy,         \* play_game's input_source
    found_letters,    \* GameState.found_letters
    loose_letters,    \* GameState.loose_letters
    invalid_letters,  \* GameState.invalid_letters
    guesses,          \* GameState.guesses
    valid_guesses,    \* GameState.valid_guesses
    turn,             \* play_game's local turn
    guess_word,       \* play_game's local guess_word
    pc,               \* position in play_game, cheat or evaluate_strategy
    games,            \* evaluate_strategy: the play_game call of every job
    word_difficulty,  \* evaluate_strategy's word_difficulty
    report            \* evaluate_strategy: the values it printed

vars == <<goal_word, strategy, found_letters, loose_letters, invalid_letters,
          guesses, valid_guesses, turn, guess_word, pc,
          games, word_difficulty, report>>

\* the variables of evaluate_strategy
batch == <<games, word_difficulty, report>>

----------------------------------------------------------------------------
(* The corpus and the constants of the program *)

None == "None"

\* words.txt is not part of the repository: a small corpus with repeated
\* letters, anagrams and shared prefixes, in file order.
words ==
    << <<"l","e","a","s","t">>,
       <<"l","o","b","b","y">>,
       <<"l","l","a","m","a">>,
       <<"l","o","c","a","l">>,
       <<"s","l","a","t","e">>,
       <<"s","t","a","l","e">>,
       <<"a","l","l","a","y">> >>

\* A goal word that is not in the corpus (play --word, evaluate --word).
OtherWord == <<"a","l","l","o","y">>

WordLen == 5

MAX_TURNS == 16

V4Switch == 4

\* The interactive player types any corpus word while fewer than MaxFree
\* guesses are recorded; afterwards the previous entry again, or the goal.
MaxFree == 2

----------------------------------------------------------------------------
(* List helpers *)

Range(s) == {s[i] : i \in 1..Len(s)}

WordSet == Range(words)

Letters == UNION {Range(wd) : wd \in WordSet \cup {OtherWord}}

\* number of occurrences of x in the list s
Count(s, x) == Cardinality({i \in 1..Len(s) : s[i] = x})

\* list.remove(x): drop the first occurrence of x
Remove(s, x) ==
    IF x \notin Range(s) THEN s
    ELSE LET k == CHOOSE i \in 1..Len(s) :
                     /\ s[i] = x
                     /\ \A j \in 1..(i - 1) : s[j] # x
         IN  SubSeq(s, 1, k - 1) \o SubSeq(s, k + 1, Len(s))

\* zip(a, b) stops at the shorter of the two
ZipLen(a, b) == IF Len(a) < Len(b) THEN Len(a) ELSE Len(b)

Zip3Len(a, b, c) == ZipLen(SubSeq(a, 1, ZipLen(a, b)), c)

----------------------------------------------------------------------------
(* GameState *)

NewGameState ==
    [found_letters   |-> [i \in 1..WordLen |-> None],
     loose_letters   |-> <<>>,
     invalid_letters |-> {},
     guesses         |-> <<>>,
     valid_guesses   |-> words]

\* check_word, line 41-43: a letter of the word is invalid
HasInvalidLetter(gs, word) ==
    \E i \in 1..Len(word) : word[i] \in gs.invalid_letters

\* check_word, line 49-53: a found letter is at another spot
FoundMismatch(gs, word) ==
    \E i \in 1..ZipLen(word, gs.found_letters) :
        /\ gs.found_letters[i] # None
        /\ word[i] # gs.found_letters[i]

\* check_word, line 46-55: the pool of the word's letters without the
\* found ones (only evaluated when there is no mismatch)
RECURSIVE PoolAfterFound(_, _, _, _)
PoolAfterFound(word, pool, found, i) ==
    IF i > ZipLen(word, found) THEN pool
    ELSE IF found[i] # None
         THEN PoolAfterFound(word, Remove(pool, found[i]), found, i + 1)
         ELSE PoolAfterFound(word, pool, found, i + 1)

\* check_word, line 58-63: every loose letter takes one letter of the pool
RECURSIVE LooseInPool(_, _)
LooseInPool(pool, loose) ==
    IF loose = <<>> THEN TRUE
    ELSE IF Head(loose) \in Range(pool)
         THEN LooseInPool(Remove(pool, Head(loose)), Tail(loose))
         ELSE FALSE

\* check_word, line 68: the test on one position of one earlier guess
SameSpot(fl, wl, gl) == fl = None /\ wl = gl

\* a variant of TriedAgain that leaves out the latest guess
TriedAgainButLast(gs, word) ==
    \E g \in 1..(Len(gs.guesses) - 1) :
        \E i \in 1..Zip3Len(word, gs.guesses[g], gs.found_letters) :
            SameSpot(gs.found_letters[i], word[i], gs.guesses[g][i])

\* check_word, line 66-69: a letter is tried again in the same spot
TriedAgain(gs, word) ==
    \E g \in 1..Len(gs.guesses) :
        \E i \in 1..Zip3Len(word, gs.guesses[g], gs.found_letters) :
            SameSpot(gs.found_letters[i], word[i], gs.guesses[g][i])

check_word(gs, word) ==
    /\ ~HasInvalidLetter(gs, word)
    /\ ~FoundMismatch(gs, word)
    /\ LooseInPool(PoolAfterFound(word, word, gs.found_letters, 1),
                   gs.loose_letters)
    /\ ~TriedAgain(gs, word)

\* add_guess, line 109-110: [word for word in s if check_word(word)]
RECURSIVE FilterValid(_, _)
FilterValid(gs, s) ==
    IF s = <<>> THEN <<>>
    ELSE IF check_word(gs, Head(s))
         THEN <<Head(s)>> \o FilterValid(gs, Tail(s))
         ELSE FilterValid(gs, Tail(s))

\* a variant of LooseAfterMatch that leaves the loose letters alone
LooseAfterMatchKeeps(loose, letter) == loose

\* add_guess, line 80-81: an exact match takes one copy of the letter out
\* of the loose letters
LooseAfterMatch(loose, letter) ==
    IF letter \in Range(loose) THEN Remove(loose, letter) ELSE loose

\* add_guess, line 77-81: the exact matches; the result is the pair
\* <<found_letters, loose_letters>>
RECURSIVE ExactPass(_, _, _, _, _)
ExactPass(found, loose, guess, goal, i) ==
    IF i > ZipLen(guess, goal) THEN <<found, loose>>
    ELSE IF guess[i] = goal[i]
         THEN ExactPass([found EXCEPT ![i] = guess[i]],
                        LooseAfterMatch(loose, guess[i]), guess, goal, i + 1)
         ELSE ExactPass(found, loose, guess, goal, i + 1)

\* a variant of Pools that keeps the matched letters in the guess pool
RECURSIVE PoolsKeepGuess(_, _, _, _, _)
PoolsKeepGuess(goal_letters, guess_letters, found, guess, i) ==
    IF i > Len(found) THEN <<goal_letters, guess_letters>>
    ELSE IF found[i] # None
         THEN PoolsKeepGuess(Remove(goal_letters, found[i]), guess_letters,
                             found, guess, i + 1)
         ELSE PoolsKeepGuess(goal_letters, guess_letters, found, guess, i + 1)

\* add_guess, line 84-90: the pools of goal and guess letters without the
\* found ones; the result is the pair <<goal_letters, guess_letters>>
RECURSIVE Pools(_, _, _, _, _)
Pools(goal_letters, guess_letters, found, guess, i) ==
    IF i > Len(found) THEN <<goal_letters, guess_letters>>
    ELSE IF found[i] # None
         THEN Pools(Remove(goal_letters, found[i]),
                    IF guess[i] = found[i]
                    THEN Remove(guess_letters, found[i])
                    ELSE guess_letters,
                    found, guess, i + 1)
         ELSE Pools(goal_letters, guess_letters, found, guess, i + 1)

\* add_guess, line 93-95: the guessed letters leave the loose pool
RECURSIVE DropRepeats(_, _)
DropRepeats(loose, guess_letters) ==
    IF guess_letters = <<>> THEN loose
    ELSE DropRepeats(IF Head(guess_letters) \in Range(loose)
                     THEN Remove(loose, Head(guess_letters))
                     ELSE loose,
                     Tail(guess_letters))

\* a variant of MoveLoose that leaves the goal letters in their pool
RECURSIVE MoveLooseNoTake(_, _, _)
MoveLooseNoTake(loose, goal_letters, guess_letters) ==
    IF guess_letters = <<>> THEN loose
    ELSE IF Head(guess_letters) \in Range(goal_letters)
         THEN MoveLooseNoTake(Append(loose, Head(guess_letters)),
                              goal_letters, Tail(guess_letters))
         ELSE MoveLooseNoTake(loose, goal_letters, Tail(guess_letters))

\* add_guess, line 99-102: the guessed letters that the goal still has
\* become loose
RECURSIVE MoveLoose(_, _, _)
MoveLoose(loose, goal_letters, guess_letters) ==
    IF guess_letters = <<>> THEN loose
    ELSE IF Head(guess_letters) \in Range(goal_letters)
         THEN MoveLoose(Append(loose, Head(guess_letters)),
                        Remove(goal_letters, Head(guess_letters)),
                        Tail(guess_letters))
         ELSE MoveLoose(loose, goal_letters, Tail(guess_letters))

\* a variant of NewInvalid that takes every letter that is off its spot
NewInvalidOffSpot(guess, goal) ==
    {guess[i] : i \in {j \in 1..ZipLen(guess, goal) : guess[j] # goal[j]}}

\* add_guess, line 105-107: the letters of the guess that the goal lacks
NewInvalid(guess, goal) ==
    {guess[i] : i \in {j \in 1..Len(guess) : guess[j] \notin Range(goal)}}

\* add_guess, line 109-110: the list that is filtered
FilterSource(gs) == gs.valid_guesses

add_guess(gs, guess, goal) ==
    LET exact == ExactPass(gs.found_letters, gs.loose_letters, guess, goal, 1)
        found == exact[1]
        pools == Pools(goal, guess, found, guess, 1)
        loose == MoveLoose(DropRepeats(exact[2], pools[2]), pools[1], pools[2])
        upd   == [found_letters   |-> found,
                  loose_letters   |-> loose,
                  invalid_letters |-> gs.invalid_letters
                                          \cup NewInvalid(guess, goal),
                  guesses         |-> Append(gs.guesses, guess),
                  valid_guesses   |-> gs.valid_guesses]
    IN  [upd EXCEPT !.valid_guesses = FilterValid(upd, FilterSource(gs))]

\* clone, line 32-37: valid_guesses is not passed on, the dataclass default
\* (a copy of the corpus) takes its place
clone(gs) ==
    [found_letters   |-> gs.found_letters,
     loose_letters   |-> gs.loose_letters,
     invalid_letters |-> gs.invalid_letters,
     guesses         |-> gs.guesses,
     valid_guesses   |-> words]

----------------------------------------------------------------------------
(* Scores *)

\* a variant of LetterWeight that counts a word once for a letter
LetterWeightOnce(word, x) == IF x \in Range(word) THEN 1 ELSE 0

\* what one word adds to the Counter of get_letter_scores for the letter x
LetterWeight(word, x) == Count(word, x)

RECURSIVE SumWeights(_, _)
SumWeights(ws, x) ==
    IF ws = <<>> THEN 0
    ELSE LetterWeight(Head(ws), x) + SumWeights(Tail(ws), x)

\* get_letter_scores, line 142-144; a Counter is 0 on a missing letter
get_letter_scores(ws) == [x \in Letters |-> SumWeights(ws, x)]

RECURSIVE SumOver(_, _)
SumOver(S, letter_score) ==
    IF S = {} THEN 0
    ELSE LET x == CHOOSE y \in S : TRUE
         IN  letter_score[x] + SumOver(S \ {x}, letter_score)

\* get_word_score, line 147-148
get_word_score(word, letter_score) == SumOver(Range(word), letter_score)

\* max(ws, key = score): the first word of ws with the highest score
MaxWord(ws, letter_score) ==
    LET sc(i) == get_word_score(ws[i], letter_score)
        k == CHOOSE i \in 1..Len(ws) :
                 /\ \A j \in 1..Len(ws) : sc(j) <= sc(i)
                 /\ \A j \in 1..(i - 1) : sc(j) < sc(i)
    IN  ws[k]

\* line 151-153
global_letter_score == get_letter_scores(words)

\* sorted(..., reverse=True), line 154-155: descending and stable
RECURSIVE SortedByScore(_, _)
SortedByScore(ws, letter_score) ==
    IF ws = <<>> THEN <<>>
    ELSE LET m == MaxWord(ws, letter_score)
         IN  <<m>> \o SortedByScore(Remove(ws, m), letter_score)

sorted_words == SortedByScore(words, global_letter_score)

----------------------------------------------------------------------------
(* The policies.  XRaises(gs) is the case where the policy raises instead  *)
(* of returning.                                                           *)

\* pick_best_word_v1, line 164: next(...) raises StopIteration
V1Raises(gs) == FilterValid(gs, sorted_words) = <<>>

\* a variant of pick_best_word_v1 that takes the best word without a test
pick_best_word_v1_untested(gs) == Head(sorted_words)

pick_best_word_v1(gs) == Head(FilterValid(gs, sorted_words))

\* a variant of pick_best_word_v2 that searches the whole corpus
pick_best_word_v2_corpus(gs) ==
    MaxWord(words, get_letter_scores(gs.valid_guesses))

\* pick_best_word_v2, line 175: max of an empty list raises ValueError
V2Raises(gs) == gs.valid_guesses = <<>>

pick_best_word_v2(gs) ==
    MaxWord(gs.valid_guesses, get_letter_scores(gs.valid_guesses))

\* pick_best_word_v3, line 183-186: the corpus is not empty, no raise
pick_best_word_v3(gs) ==
    IF Len(gs.valid_guesses) = 1 THEN gs.valid_guesses[1]
    ELSE MaxWord(words, get_letter_scores(gs.valid_guesses))

\* a variant of V4UsesV3 that changes over one turn earlier
V4UsesV3Early(gs) == Len(gs.guesses) < V4Switch - 1

\* pick_best_word_v4, line 193-194
V4UsesV3(gs) == Len(gs.guesses) < V4Switch

V4Raises(gs) == ~V4UsesV3(gs) /\ V2Raises(gs)

pick_best_word_v4(gs) ==
    IF V4UsesV3(gs) THEN pick_best_word_v3(gs) ELSE pick_best_word_v2(gs)

\* pick_best_word_v5.eval_word, line 202-206: the sum before the division
RECURSIVE EvalSum(_, _, _)
EvalSum(gs, word, targets) ==
    IF targets = <<>> THEN 0
    ELSE Len(add_guess(clone(gs), word, Head(targets)).valid_guesses)
             + EvalSum(gs, word, Tail(targets))

\* a variant of CloneCopies in which clone hands over invalid_letters itself
CloneCopiesButInvalid == {"found_letters", "loose_letters", "guesses"}

\* clone, line 34-37: the fields that clone passes on as a copy()
CloneCopies ==
    {"found_letters", "loose_letters", "invalid_letters", "guesses"}

\* eval_word, line 204-205: the game's own state after add_guess has worked
\* on a clone ns of it.  add_guess changes the lists and the set of ns in
\* place and rebinds ns.valid_guesses; a field that clone did not copy is
\* the same object in both states.
AfterCloneUse(gs, ns) ==
    [found_letters   |-> IF "found_letters" \in CloneCopies
                         THEN gs.found_letters ELSE ns.found_letters,
     loose_letters   |-> IF "loose_letters" \in CloneCopies
                         THEN gs.loose_letters ELSE ns.loose_letters,
     invalid_letters |-> IF "invalid_letters" \in CloneCopies
                         THEN gs.invalid_letters ELSE ns.invalid_letters,
     guesses         |-> IF "guesses" \in CloneCopies
                         THEN gs.guesses ELSE ns.guesses,
     valid_guesses   |-> gs.valid_guesses]

\* eval_word, line 203-206: the game's own state after the loop over targets
RECURSIVE AfterEvalWord(_, _, _)
AfterEvalWord(gs, word, targets) ==
    IF targets = <<>> THEN gs
    ELSE AfterEvalWord(
             AfterCloneUse(gs, add_guess(clone(gs), word, Head(targets))),
             word, Tail(targets))

\* pick_best_word_v5, line 210-211: the game's own state after eval_word
\* has run for the words ws
RECURSIVE AfterV5(_, _)
AfterV5(gs, ws) ==
    IF ws = <<>> THEN gs
    ELSE AfterV5(AfterEvalWord(gs, Head(ws), gs.valid_guesses), Tail(ws))

\* pick_best_word_v5, line 207: division by len(valid_guesses)
V5Raises(gs) == gs.valid_guesses = <<>>

\* pick_best_word_v5, line 210-212: min(word_scores), a number and not a
\* word; the quotient s / n is the pair <<s, n>> with the same n for all
pick_best_word_v5(gs) ==
    LET sums == {EvalSum(gs, words[i], gs.valid_guesses) : i \in 1..Len(words)}
    IN  <<CHOOSE m \in sums : \A n \in sums : m <= n, Len(gs.valid_guesses)>>

\* play.make_guess, line 266-277: the entries that end the prompt loop
PlayerAccepts(gs, hardmode, guess) ==
    /\ guess \in WordSet
    /\ hardmode => check_word(gs, guess)

----------------------------------------------------------------------------
(* play_game *)

Strategies == {"v1", "v2", "v3", "v4", "v5", "play", "hardmode"}

Goals == WordSet \cup {OtherWord}

\* the GameState object of the running game
game_state ==
    [found_letters   |-> found_letters,
     loose_letters   |-> loose_letters,
     invalid_letters |-> invalid_letters,
     guesses         |-> guesses,
     valid_guesses   |-> valid_guesses]

\* line 118-119
Init ==
    /\ goal_word \in Goals
    /\ strategy \in Strategies
    /\ found_letters = NewGameState.found_letters
    /\ loose_letters = NewGameState.loose_letters
    /\ invalid_letters = NewGameState.invalid_letters
    /\ guesses = NewGameState.guesses
    /\ valid_guesses = NewGameState.valid_guesses
    /\ turn = 0
    /\ guess_word = <<>>
    /\ pc = "loop"
    /\ games = <<>>
    /\ word_difficulty = <<>>
    /\ report = <<>>

\* a variant of LoopCond that admits one more turn
LoopCondInclusive(t) == t <= MAX_TURNS

\* line 120: the loop test
LoopCond(t) == t < MAX_TURNS

\* line 131: the test of the guess
IsGoal(guess, goal) == guess = goal

\* line 121-130: a turn in which input_source returns the guess g
Request(g) ==
    /\ pc = "loop"
    /\ LoopCond(turn)
    /\ turn' = turn + 1
    /\ guess_word' = g
    /\ pc' = "guessed"
    /\ UNCHANGED batch
    /\ UNCHANGED <<goal_word, strategy, found_letters, loose_letters,
                   invalid_letters, guesses, valid_guesses>>

\* line 121-129: a turn in which input_source raises
RequestRaises ==
    /\ pc = "loop"
    /\ LoopCond(turn)
    /\ turn' = turn + 1
    /\ pc' = "raised"
    /\ UNCHANGED batch
    /\ UNCHANGED <<goal_word, strategy, found_letters, loose_letters,
                   invalid_letters, guesses, valid_guesses, guess_word>>

GuessV1 ==
    /\ strategy = "v1"
    /\ ~V1Raises(game_state)
    /\ Request(pick_best_word_v1(game_state))

RaiseV1 == strategy = "v1" /\ V1Raises(game_state) /\ RequestRaises

GuessV2 ==
    /\ strategy = "v2"
    /\ ~V2Raises(game_state)
    /\ Request(pick_best_word_v2(game_state))

RaiseV2 == strategy = "v2" /\ V2Raises(game_state) /\ RequestRaises

GuessV3 == strategy = "v3" /\ Request(pick_best_word_v3(game_state))

GuessV4 ==
    /\ strategy = "v4"
    /\ ~V4Raises(game_state)
    /\ Request(pick_best_word_v4(game_state))

RaiseV4 == strategy = "v4" /\ V4Raises(game_state) /\ RequestRaises

\* In play_game the first value V5 returns ends the game (AddGuessRaises),
\* so V5 is never asked with an empty valid_guesses.
GuessV5 ==
    /\ strategy = "v5"
    /\ ~V5Raises(game_state)
    /\ pc = "loop"
    /\ LoopCond(turn)
    /\ turn' = turn + 1
    /\ guess_word' = pick_best_word_v5(game_state)
    /\ LET gs == AfterV5(game_state, words)
       IN  /\ found_letters' = gs.found_letters
           /\ loose_letters' = gs.loose_letters
           /\ invalid_letters' = gs.invalid_letters
           /\ guesses' = gs.guesses
           /\ valid_guesses' = gs.valid_guesses
    /\ pc' = "guessed"
    /\ UNCHANGED batch
    /\ UNCHANGED <<goal_word, strategy>>

\* the entries of the player that the model explores
PlayerTypes(guess) ==
    \/ Len(guesses) < MaxFree
    \/ guess = goal_word
    \/ guesses # <<>> /\ guess = guesses[Len(guesses)]

\* play, line 265-280, without --hardmode
GuessPlayer ==
    /\ strategy = "play"
    /\ \E guess \in WordSet :
          /\ PlayerTypes(guess)
          /\ PlayerAccepts(game_state, FALSE, guess)
          /\ Request(guess)

\* play, line 265-280, with --hardmode; the prompt loop does not end while
\* no entry is accepted
GuessHardmode ==
    /\ strategy = "hardmode"
    /\ \E guess \in WordSet :
          /\ PlayerAccepts(game_state, TRUE, guess)
          /\ Request(guess)

\* line 131-133
Solved ==
    /\ pc = "guessed"
    /\ strategy # "v5"
    /\ IsGoal(guess_word, goal_word)
    /\ pc' = "solved"
    /\ UNCHANGED batch
    /\ UNCHANGED <<goal_word, strategy, found_letters, loose_letters,
                   invalid_letters, guesses, valid_guesses, turn, guess_word>>

\* line 137
AddGuess ==
    /\ pc = "guessed"
    /\ strategy # "v5"
    /\ ~IsGoal(guess_word, goal_word)
    /\ LET gs == add_guess(game_state, guess_word, goal_word)
       IN  /\ found_letters' = gs.found_letters
           /\ loose_letters' = gs.loose_letters
           /\ invalid_letters' = gs.invalid_letters
           /\ guesses' = gs.guesses
           /\ valid_guesses' = gs.valid_guesses
    /\ pc' = "loop"
    /\ UNCHANGED batch
    /\ UNCHANGED <<goal_word, strategy, turn, guess_word>>

\* line 131, 137 with the number of V5: it is no word, line 74 appends it
\* and zip() at line 77 raises TypeError
AddGuessRaises ==
    /\ pc = "guessed"
    /\ strategy = "v5"
    /\ guesses' = Append(guesses, guess_word)
    /\ pc' = "raised"
    /\ UNCHANGED batch
    /\ UNCHANGED <<goal_word, strategy, found_letters, loose_letters,
                   invalid_letters, valid_guesses, turn, guess_word>>

\* line 120, 139: the loop ends at the cap
ReturnAtCap ==
    /\ pc = "loop"
    /\ ~LoopCond(turn)
    /\ pc' = "failed"
    /\ UNCHANGED batch
    /\ UNCHANGED <<goal_word, strategy, found_letters, loose_letters,
                   invalid_letters, guesses, valid_guesses, turn, guess_word>>

Next ==
    \/ GuessV1
    \/ RaiseV1
    \/ GuessV2
    \/ RaiseV2
    \/ GuessV3
    \/ GuessV4
    \/ RaiseV4
    \/ GuessV5
    \/ GuessPlayer
    \/ GuessHardmode
    \/ Solved
    \/ AddGuess
    \/ AddGuessRaises
    \/ ReturnAtCap

Spec == Init /\ [][Next]_vars

\* play.make_guess, line 268-276: with --hardmode the prompt loop has no
\* entry to accept and input_source does not return
PromptBlocked ==
    /\ strategy = "hardmode"
    /\ pc = "loop"
    /\ \A guess \in WordSet : ~PlayerAccepts(game_state, TRUE, guess)

\* play_game is sequential code: while it has not returned or raised and
\* its prompt is not blocked, its next statement is executed.  Every step
\* of Next changes pc, and Step states no more than that.
Step ==
    /\ pc \in {"loop", "guessed"}
    /\ ~PromptBlocked
    /\ pc' \in {"loop", "guessed", "solved", "failed", "raised"} \ {pc}

FairSpec == Spec /\ WF_pc(Step)

\* a variant of ReturnValue that leaves out the turn of the winning guess
ReturnValueBefore == turn - 1

\* line 133, 139: both return statements return turn
Returned == pc \in {"solved", "failed"}

ReturnValue == turn

----------------------------------------------------------------------------
(* cheat: the loop that suggests words for a game played elsewhere.        *)
(* goal_word is the hidden word of that game; the user reports what the    *)
(* game shows.  A line of input is the tuple of its characters.            *)

\* The cheat loop is left after MaxRounds rounds.
MaxRounds == 3

CheatStrategies == {"v1", "v2", "v3", "v4", "v5"}

\* line 289-290
InitCheat ==
    /\ goal_word \in Goals
    /\ strategy \in CheatStrategies
    /\ found_letters = NewGameState.found_letters
    /\ loose_letters = NewGameState.loose_letters
    /\ invalid_letters = NewGameState.invalid_letters
    /\ guesses = NewGameState.guesses
    /\ valid_guesses = NewGameState.valid_guesses
    /\ turn = 0
    /\ guess_word = <<>>
    /\ pc = "suggest"
    /\ games = <<>>
    /\ word_difficulty = <<>>
    /\ report = <<>>

\* what the game of the user shows after the guesses gl: the bookkeeping
\* of add_guess for the hidden word
RECURSIVE Shown(_, _, _)
Shown(gs, gl, goal) ==
    IF gl = <<>> THEN gs
    ELSE Shown(add_guess(gs, Head(gl), goal), Tail(gl), goal)

\* the answer to the prompt of line 297-298: the word so far, "-" for a
\* missing letter
FoundLine(found) ==
    [i \in 1..Len(found) |-> IF found[i] = None THEN "-" ELSE found[i]]

\* the answer to the prompt of line 299-300: all loose letters separated
\* by spaces
RECURSIVE LooseLine(_)
LooseLine(loose) ==
    IF Len(loose) <= 1 THEN loose
    ELSE <<Head(loose), " ">> \o LooseLine(Tail(loose))

\* line 306-308: the letters of the first input line are bound
RECURSIVE BindFound(_, _, _)
BindFound(found, line, i) ==
    IF i > Len(line) THEN found
    ELSE BindFound(IF line[i] # "-" THEN [found EXCEPT ![i] = line[i]]
                   ELSE found,
                   line, i + 1)

\* line 311: all(game_state.found_letters)
AllFound(found) == \A i \in 1..Len(found) : found[i] # None

\* line 316: list(loose_letters), every character of the input line
LooseOfLine(line) == [i \in 1..Len(line) |-> line[i]]

\* line 319-322: the letters of all guesses that are neither found nor loose
CheatInvalid(gl, found, loose) ==
    {gl[p[1]][p[2]] : p \in {q \in (1..Len(gl)) \X (1..WordLen) :
                               /\ gl[q[1]][q[2]] \notin Range(found)
                               /\ gl[q[1]][q[2]] \notin Range(loose)}}

\* line 293-294: strategy_func returns the guess g
Suggest(g) ==
    /\ pc = "suggest"
    /\ Len(guesses) < MaxRounds
    /\ guess_word' = g
    /\ pc' = "feedback"
    /\ UNCHANGED batch
    /\ UNCHANGED <<goal_word, strategy, found_letters, loose_letters,
                   invalid_letters, guesses, valid_guesses, turn>>

CheatV1 ==
    /\ strategy = "v1"
    /\ ~V1Raises(game_state)
    /\ Suggest(pick_best_word_v1(game_state))

\* line 293: StopIteration leaves cheat
CheatRaiseV1 ==
    /\ strategy = "v1"
    /\ V1Raises(game_state)
    /\ pc = "suggest"
    /\ Len(guesses) < MaxRounds
    /\ pc' = "cheat_raised"
    /\ UNCHANGED batch
    /\ UNCHANGED <<goal_word, strategy, found_letters, loose_letters,
                   invalid_letters, guesses, valid_guesses, turn, guess_word>>

\* valid_guesses stays the corpus in cheat: V2, V4 and V5 do not raise
CheatV2 ==
    /\ strategy = "v2"
    /\ ~V2Raises(game_state)
    /\ Suggest(pick_best_word_v2(game_state))

CheatV3 == strategy = "v3" /\ Suggest(pick_best_word_v3(game_state))

CheatV4 ==
    /\ strategy = "v4"
    /\ ~V4Raises(game_state)
    /\ Suggest(pick_best_word_v4(game_state))

CheatV5 ==
    /\ strategy = "v5"
    /\ ~V5Raises(game_state)
    /\ pc = "suggest"
    /\ Len(guesses) < MaxRounds
    /\ guess_word' = pick_best_word_v5(game_state)
    /\ LET gs == AfterV5(game_state, words)
       IN  /\ found_letters' = gs.found_letters
           /\ loose_letters' = gs.loose_letters
           /\ invalid_letters' = gs.invalid_letters
           /\ guesses' = gs.guesses
           /\ valid_guesses' = gs.valid_guesses
    /\ pc' = "feedback"
    /\ UNCHANGED batch
    /\ UNCHANGED <<goal_word, strategy, turn>>

\* the state of the user's game once the suggested word is played there
ShownNow == Shown(NewGameState, Append(guesses, guess_word), goal_word)

\* line 297-313: the feedback binds every letter, cheat returns
CheatDone ==
    /\ pc = "feedback"
    /\ strategy # "v5"
    /\ LET found == BindFound(found_letters,
                              FoundLine(ShownNow.found_letters), 1)
       IN  /\ AllFound(found)
           /\ found_letters' = found
    /\ guesses' = Append(guesses, guess_word)
    /\ pc' = "cheat_done"
    /\ UNCHANGED batch
    /\ UNCHANGED <<goal_word, strategy, loose_letters, invalid_letters,
                   valid_guesses, turn, guess_word>>

\* line 297-324: a round of feedback that does not bind every letter
CheatFeedback ==
    /\ pc = "feedback"
    /\ strategy # "v5"
    /\ LET found == BindFound(found_letters,
                              FoundLine(ShownNow.found_letters), 1)
           loose == LooseOfLine(LooseLine(ShownNow.loose_letters))
           gl    == Append(guesses, guess_word)
       IN  /\ ~AllFound(found)
           /\ found_letters' = found
           /\ loose_letters' = loose
           /\ guesses' = gl
           /\ invalid_letters' =
                  invalid_letters \cup CheatInvalid(gl, found, loose)
    /\ pc' = "suggest"
    /\ UNCHANGED batch
    /\ UNCHANGED <<goal_word, strategy, valid_guesses, turn, guess_word>>

\* line 303-320 with the number of V5: no game takes it as a guess, the
\* user has nothing to report; line 303 appends it and the loop over its
\* letters at line 320 raises TypeError
CheatFeedbackRaises ==
    /\ pc = "feedback"
    /\ strategy = "v5"
    /\ guesses' = Append(guesses, guess_word)
    /\ pc' = "cheat_raised"
    /\ UNCHANGED batch
    /\ UNCHANGED <<goal_word, strategy, found_letters, loose_letters,
                   invalid_letters, valid_guesses, turn, guess_word>>

NextCheat ==
    \/ CheatV1
    \/ CheatRaiseV1
    \/ CheatV2
    \/ CheatV3
    \/ CheatV4
    \/ CheatV5
    \/ CheatDone
    \/ CheatFeedback
    \/ CheatFeedbackRaises

SpecCheat == InitCheat /\ [][NextCheat]_vars

----------------------------------------------------------------------------
(* evaluate_strategy: one play_game call per corpus word, run by the       *)
(* workers of joblib.Parallel.  games[i] is the call for words[i].         *)

\* line 216: n_jobs
n_jobs == 16

\* The model lets at most NWorkers of the n_jobs workers run at a time.
NWorkers == 2

\* line 221: the turn count up to which a game counts as solved
SolvedWithin == 6

BatchStrategies == {"v1", "v2", "v3", "v4", "v5"}

Jobs == 1..Len(words)

\* a job that no worker has taken
Queued ==
    [pc |-> "queued", game_state |-> NewGameState, turn |-> 0,
     guess_word |-> <<>>]

InitBatch ==
    /\ goal_word = <<>>
    /\ strategy \in BatchStrategies
    /\ found_letters = NewGameState.found_letters
    /\ loose_letters = NewGameState.loose_letters
    /\ invalid_letters = NewGameState.invalid_letters
    /\ guesses = NewGameState.guesses
    /\ valid_guesses = NewGameState.valid_guesses
    /\ turn = 0
    /\ guess_word = <<>>
    /\ pc = "batch"
    /\ games = [i \in Jobs |-> Queued]
    /\ word_difficulty = <<>>
    /\ report = <<>>

\* line 235-245: the policy named by the option
PolicyRaises(s, gs) ==
    \/ s = "v1" /\ V1Raises(gs)
    \/ s = "v2" /\ V2Raises(gs)
    \/ s = "v4" /\ V4Raises(gs)
    \/ s = "v5" /\ V5Raises(gs)

parse_strategy(s, gs) ==
    CASE s = "v1" -> pick_best_word_v1(gs)
      [] s = "v2" -> pick_best_word_v2(gs)
      [] s = "v3" -> pick_best_word_v3(gs)
      [] s = "v4" -> pick_best_word_v4(gs)
      [] s = "v5" -> pick_best_word_v5(gs)

\* the game state once the policy has returned
PolicyLeaves(s, gs) == IF s = "v5" THEN AfterV5(gs, words) ELSE gs

\* a variant of FreshGame in which a game starts from the state of the
\* job before it
FreshGameShared(gms, i) ==
    IF i = 1 THEN NewGameState ELSE gms[i - 1].game_state

\* line 119: play_game builds its own GameState()
FreshGame(gms, i) == NewGameState

Running == {j \in Jobs : games[j].pc \in {"loop", "guessed"}}

BatchKeeps ==
    UNCHANGED <<goal_word, strategy, found_letters, loose_letters,
                invalid_letters, guesses, valid_guesses, turn, guess_word>>

\* line 216-217, 118-119: a free worker takes the next word
BatchStart(i) ==
    /\ pc = "batch"
    /\ games[i].pc = "queued"
    /\ \A j \in 1..(i - 1) : games[j].pc # "queued"
    /\ Cardinality(Running) < (IF n_jobs < NWorkers THEN n_jobs ELSE NWorkers)
    /\ games' = [games EXCEPT ![i] =
                     [pc |-> "loop", game_state |-> FreshGame(games, i),
                      turn |-> 0, guess_word |-> <<>>]]
    /\ pc' = pc
    /\ BatchKeeps
    /\ UNCHANGED <<word_difficulty, report>>

\* line 120-133 in the game of job i
BatchGuess(i) ==
    /\ pc = "batch"
    /\ games[i].pc = "loop"
    /\ LoopCond(games[i].turn)
    /\ ~PolicyRaises(strategy, games[i].game_state)
    /\ LET g == parse_strategy(strategy, games[i].game_state)
       IN  games' = [games EXCEPT ![i] =
                  [pc |-> IF strategy # "v5" /\ IsGoal(g, words[i])
                          THEN "returned" ELSE "guessed",
                   game_state |-> PolicyLeaves(strategy, games[i].game_state),
                   turn |-> games[i].turn + 1,
                   guess_word |-> g]]
    /\ pc' = pc
    /\ BatchKeeps
    /\ UNCHANGED <<word_difficulty, report>>

\* line 137 in the game of job i
BatchAddGuess(i) ==
    /\ pc = "batch"
    /\ games[i].pc = "guessed"
    /\ strategy # "v5"
    /\ games' = [games EXCEPT ![i].pc = "loop",
                              ![i].game_state =
                                  add_guess(@, games[i].guess_word, words[i])]
    /\ pc' = pc
    /\ BatchKeeps
    /\ UNCHANGED <<word_difficulty, report>>

\* line 120, 139 in the game of job i
BatchReturnAtCap(i) ==
    /\ pc = "batch"
    /\ games[i].pc = "loop"
    /\ ~LoopCond(games[i].turn)
    /\ games' = [games EXCEPT ![i].pc = "returned"]
    /\ pc' = pc
    /\ BatchKeeps
    /\ UNCHANGED <<word_difficulty, report>>

\* the policy raises at line 129, or add_guess raises on the number of V5
\* at line 137; Parallel raises the exception in evaluate_strategy
BatchRaise(i) ==
    /\ pc = "batch"
    /\ \/ /\ games[i].pc = "loop"
          /\ LoopCond(games[i].turn)
          /\ PolicyRaises(strategy, games[i].game_state)
          /\ games' = [games EXCEPT ![i].pc = "raised",
                                    ![i].turn = @ + 1]
       \/ /\ games[i].pc = "guessed"
          /\ strategy = "v5"
          /\ games' = [games EXCEPT ![i].pc = "raised",
                                    ![i].game_state.guesses =
                                        Append(@, games[i].guess_word)]
    /\ pc' = "batch_raised"
    /\ BatchKeeps
    /\ UNCHANGED <<word_difficulty, report>>

\* line 218: Counter(word_difficulty)
Counter(s) == [x \in Range(s) |-> Count(s, x)]

\* sum(s)
RECURSIVE sum(_)
sum(s) == IF s = <<>> THEN 0 ELSE Head(s) + sum(Tail(s))

\* line 219: sum(word_difficulty) / len(words), as numerator and denominator
average_turns(wd) == <<sum(wd), Len(words)>>

\* line 220-221
num_solved(wd) == Cardinality({i \in 1..Len(wd) : wd[i] <= SolvedWithin})

\* line 216-225: Parallel returns the results in the order of words, the
\* figures are computed and printed
BatchReduce ==
    /\ pc = "batch"
    /\ \A i \in Jobs : games[i].pc = "returned"
    /\ LET wd == [i \in Jobs |-> games[i].turn]
       IN  /\ word_difficulty' = wd
           /\ report' = <<Counter(wd), average_turns(wd), num_solved(wd)>>
    /\ pc' = "reported"
    /\ BatchKeeps
    /\ UNCHANGED games

NextBatch ==
    \/ \E i \in Jobs : BatchStart(i)
    \/ \E i \in Jobs : BatchGuess(i)
    \/ \E i \in Jobs : BatchAddGuess(i)
    \/ \E i \in Jobs : BatchReturnAtCap(i)
    \/ \E i \in Jobs : BatchRaise(i)
    \/ BatchReduce

SpecBatch == InitBatch /\ [][NextBatch]_vars

----------------------------------------------------------------------------
(* Properties *)

\* every entry of guesses is a corpus word (false after V5's number)
GuessesAreWords == Range(guesses) \subseteq WordSet

\* number of positions of found_letters bound to x
FoundCount(x) == Cardinality({i \in 1..Len(found_letters) : found_letters[i] = x})

Min(a, b) == IF a < b THEN a ELSE b

\* C1: with a goal from the corpus, after every add_guess of corpus words
\* that are not the goal, check_word accepts the goal and the goal is in
\* valid_guesses.
C1_GoalStaysCandidate ==
    (goal_word \in WordSet /\ GuessesAreWords)
        => /\ check_word(game_state, goal_word)
           /\ goal_word \in Range(valid_guesses)

C1_Witness ==
    /\ goal_word \in WordSet
    /\ pc = "loop"
    /\ Len(guesses) >= 2
    /\ loose_letters # <<>>
    /\ Len(valid_guesses) < Len(words)
    /\ goal_word \in Range(valid_guesses)

\* C2: after any sequence of add_guess calls against one goal, the corpus
\* words that check_word accepts are exactly the words of valid_guesses.
C2_FullFilterIsValidGuesses ==
    GuessesAreWords
        => Range(FilterValid(game_state, words)) = Range(valid_guesses)

\* C3: while the game is not solved, check_word rejects every word of
\* guesses.
C3_GuessedWordsRejected ==
    GuessesAreWords
        => \A i \in 1..Len(guesses) : ~check_word(game_state, guesses[i])

C3_Witness ==
    /\ pc = "loop"
    /\ Len(guesses) >= 2
    /\ invalid_letters = {}
    /\ \A i \in 1..Len(guesses) :
           /\ ~FoundMismatch(game_state, guesses[i])
           /\ ~check_word(game_state, guesses[i])

\* C4: under every guess provider, no word is in guesses twice.
C4_NoGuessTwice ==
    \A i, j \in 1..Len(guesses) : i # j => guesses[i] # guesses[j]

\* C5: play_game asks for at most MAX_TURNS guesses, a returned turn count
\* is between 1 and MAX_TURNS, and every run whose guess provider returns
\* comes to an end.
C5_PlayGameEnds ==
    /\ [](/\ turn <= MAX_TURNS
          /\ Returned => (1 <= ReturnValue /\ ReturnValue <= MAX_TURNS))
    /\ <>(Returned \/ pc = "raised" \/ PromptBlocked)

C5_Witness == pc = "failed" /\ ReturnValue = MAX_TURNS /\ Len(guesses) = MAX_TURNS

\* C6: play_game returns the turn cap if and only if the game ended at the
\* cap without the goal being guessed.
C6_CapMeansFailed ==
    Returned => (ReturnValue = MAX_TURNS <=> pc = "failed")

\* C7: for every letter, its copies in loose_letters are at most its
\* occurrences in the goal minus the found_letters positions bound to it.
C7_LooseWithinGoal ==
    \A x \in Letters :
        Count(loose_letters, x) + FoundCount(x) <= Count(goal_word, x)

C7_Witness ==
    /\ Len(guesses) >= 2
    /\ \E x \in Letters :
           /\ FoundCount(x) >= 1
           /\ Count(loose_letters, x) >= 1
           /\ Count(loose_letters, x) + FoundCount(x) = Count(goal_word, x)

\* C8: one add_guess on an empty model binds found_letters exactly where
\* guess and goal agree, makes found plus loose copies of every letter the
\* smaller of its counts in guess and goal, and makes invalid_letters the
\* guess letters that the goal lacks; for goal allay and guess llama:
\* found is l at the second position only, loose is l, a, a, invalid is m.
C8_FirstGuessCounts ==
    (Len(guesses) = 1 /\ GuessesAreWords) =>
        LET guess == guesses[1]
        IN  /\ \A i \in 1..WordLen :
                   found_letters[i] =
                       IF guess[i] = goal_word[i] THEN guess[i] ELSE None
            /\ \A x \in Letters :
                   FoundCount(x) + Count(loose_letters, x)
                       = Min(Count(guess, x), Count(goal_word, x))
            /\ invalid_letters = Range(guess) \ Range(goal_word)
            /\ (goal_word = <<"a","l","l","a","y">>
                    /\ guess = <<"l","l","a","m","a">>)
                   => /\ found_letters = <<None, "l", None, None, None>>
                      /\ Len(loose_letters) = 3
                      /\ Count(loose_letters, "l") = 1
                      /\ Count(loose_letters, "a") = 2
                      /\ invalid_letters = {"m"}

C8_Witness ==
    /\ goal_word = <<"a","l","l","a","y">>
    /\ guesses = << <<"l","l","a","m","a">> >>
    /\ loose_letters = <<"l", "a", "a">>

\* C9: invalid_letters has no letter of the goal, none bound in
\* found_letters and none of loose_letters.
C9_InvalidDisjoint ==
    /\ invalid_letters \cap Range(goal_word) = {}
    /\ invalid_letters \cap Range(found_letters) = {}
    /\ invalid_letters \cap Range(loose_letters) = {}

C9_Witness ==
    /\ invalid_letters # {}
    /\ loose_letters # <<>>
    /\ \E i \in 1..WordLen : found_letters[i] # None
    /\ Len(guesses) >= 2

\* C10: in a game with a goal from the corpus, the word that V1 or V2
\* returns is accepted by check_word and is in valid_guesses.
C10_V1V2ReturnCandidates ==
    (pc = "guessed" /\ strategy \in {"v1", "v2"} /\ goal_word \in WordSet)
        => /\ check_word(game_state, guess_word)
           /\ guess_word \in Range(valid_guesses)

C10_Witness ==
    /\ pc = "guessed"
    /\ strategy \in {"v1", "v2"}
    /\ goal_word \in WordSet
    /\ turn >= 3
    /\ Len(valid_guesses) < Len(words)

\* C11: when no corpus word satisfies the model, the policies V1 to V4 do
\* not return a word.
C11_NoWordWhenExhausted ==
    (pc = "guessed" /\ strategy \in {"v1", "v2", "v3", "v4"})
        => FilterValid(game_state, words) # <<>>

\* C14 as stated: V4 applies V3's rule while fewer than 3 guesses are
\* recorded and V2's rule from then on.
C14_V4SwitchesAfterThree ==
    (pc = "guessed" /\ strategy = "v4")
        => IF Len(guesses) < 3
           THEN guess_word = pick_best_word_v3(game_state)
           ELSE /\ ~V2Raises(game_state)
                /\ guess_word = pick_best_word_v2(game_state)

\* C14, amended: V4 applies V3's rule on the first 4 turns (0 to 3 guesses
\* recorded) and V2's rule on the 5th and every later turn.
C14_V4SwitchesAfterFour ==
    (pc = "guessed" /\ strategy = "v4")
        => IF Len(guesses) \in {0, 1, 2, 3}
           THEN guess_word = pick_best_word_v3(game_state)
           ELSE /\ ~V2Raises(game_state)
                /\ guess_word = pick_best_word_v2(game_state)

C14_Witness ==
    /\ pc = "guessed"
    /\ strategy = "v4"
    /\ Len(guesses) = 4
    /\ guess_word # pick_best_word_v3(game_state)

\* C15: V5 returns a corpus word, one with the least mean number of
\* remaining candidates over the current candidates as goal.
C15_V5ReturnsBestWord ==
    (pc = "guessed" /\ strategy = "v5")
        => /\ guess_word \in WordSet
           /\ \A i \in 1..Len(words) :
                  EvalSum(game_state, guess_word, valid_guesses)
                      <= EvalSum(game_state, words[i], valid_guesses)

\* number of words of the list ws that contain x
WordsWith(ws, x) == Cardinality({i \in 1..Len(ws) : x \in Range(ws[i])})

\* number of occurrences of x in all words of the list ws
Occurrences(ws, x) ==
    Cardinality({p \in (1..Len(ws)) \X (1..WordLen) : ws[p[1]][p[2]] = x})

\* positions of a word that hold the first copy of their letter
FirstCopies(word) ==
    {j \in 1..Len(word) : \A k \in 1..(j - 1) : word[k] # word[j]}

RECURSIVE SumAt(_, _, _)
SumAt(word, table, J) ==
    IF J = {} THEN 0
    ELSE LET j == CHOOSE k \in J : TRUE
         IN  table[word[j]] + SumAt(word, table, J \ {j})

\* C16 as stated: get_letter_scores counts, per letter, the words that
\* contain it.
C16_ScoreCountsWords ==
    \A x \in Letters :
        get_letter_scores(valid_guesses)[x] = WordsWith(valid_guesses, x)

\* C16, amended: get_letter_scores counts, per letter, all its occurrences
\* in the words (a repeated letter counts every time), and get_word_score
\* is the sum of the table over the distinct letters of the word.
C16_ScoreCountsOccurrences ==
    LET table == get_letter_scores(valid_guesses)
    IN  /\ \A x \in Letters : table[x] = Occurrences(valid_guesses, x)
        /\ \A i \in 1..Len(words) :
               get_word_score(words[i], table)
                   = SumAt(words[i], table, FirstCopies(words[i]))

C16_Witness ==
    /\ pc = "guessed"
    /\ strategy \in {"v2", "v3", "v4"}
    /\ Len(valid_guesses) >= 2
    /\ \E x \in Letters :
           Occurrences(valid_guesses, x) > WordsWith(valid_guesses, x)

\* C18 as stated: the turn count of a solved game is the number of guesses
\* folded into the model before the winning guess.
C18_SolvedCountIsUpdates ==
    pc = "solved" => ReturnValue = Len(guesses)

\* C18, amended: the counter starts at 0 and is incremented at the start
\* of every turn, before the guess is requested; the turn count of a
\* solved game is the number of guesses made, the winning one included
\* (len(guesses) + 1 at the moment of the match).
C18_SolvedCountIsGuesses ==
    /\ pc = "loop" /\ GuessesAreWords => turn = Len(guesses)
    /\ pc = "guessed" => turn = Len(guesses) + 1
    /\ pc = "solved" => ReturnValue = Len(guesses) + 1

C18_Witness == pc = "solved" /\ ReturnValue = 1 /\ guesses = <<>>

\* C20: in a game played by V1 or V2 with a goal from the corpus, every
\* non-winning turn takes the guessed word (and nothing else than
\* candidates) out of valid_guesses, so at most as many guesses are made as
\* the corpus has words, and the game ends solved (the corpus is not larger
\* than the turn cap).
ValidPolicyGame == strategy \in {"v1", "v2"} /\ goal_word \in WordSet

C20_CandidatesShrinkToGoal ==
    /\ [][(ValidPolicyGame /\ pc = "guessed" /\ pc' = "loop")
              => /\ guess_word \in Range(valid_guesses)
                 /\ guess_word \notin Range(valid_guesses')
                 /\ Range(valid_guesses') \subseteq Range(valid_guesses)
                 /\ Len(valid_guesses') < Len(valid_guesses)]_vars
    /\ [](ValidPolicyGame
              => /\ turn <= Len(words)
                 /\ pc \notin {"failed", "raised"})
    /\ (ValidPolicyGame /\ Len(words) <= MAX_TURNS) => <>(pc = "solved")

C20_Witness ==
    /\ ValidPolicyGame
    /\ pc = "solved"
    /\ Len(guesses) = 2
    /\ Len(valid_guesses) = 1

\* C19: within a game the model is changed by add_guess only, once in every
\* turn that does not win: choosing the guess (check_word, the policies V1
\* to V5 with V5's add_guess calls on clones, the player's prompt) and the
\* winning turn leave found_letters, loose_letters, invalid_letters, guesses
\* and valid_guesses as they are.
C19_OnlyAddGuessChangesModel ==
    [][/\ pc = "loop" => game_state' = game_state
       /\ pc = "guessed" =>
              \/ pc' = "solved" /\ game_state' = game_state
              \/ /\ pc' = "loop"
                 /\ game_state' = add_guess(game_state, guess_word, goal_word)
                 /\ Len(guesses') = Len(guesses) + 1
              \/ /\ pc' = "raised"
                 /\ strategy = "v5"
                 /\ game_state' = [game_state EXCEPT
                                       !.guesses = Append(@, guess_word)]]_vars

C19_Witness ==
    /\ pc = "guessed"
    /\ strategy = "v5"
    /\ guess_word \notin WordSet
    /\ game_state = NewGameState

\* C12: in the cheat loop with honest feedback in the prompted format,
\* check_word accepts the hidden word after every round.
C12_CheatKeepsHiddenWord ==
    (pc = "suggest" /\ GuessesAreWords)
        => check_word(game_state, goal_word)

\* C13: in the cheat loop the candidates are recomputed after every round
\* of feedback, and every word that V1 or V2 suggests is accepted by
\* check_word and was not suggested before.
C13_CheatSuggestsFreshCandidates ==
    /\ (pc = "suggest" /\ GuessesAreWords)
           => \A i \in 1..Len(valid_guesses) :
                  check_word(game_state, valid_guesses[i])
    /\ (pc = "feedback" /\ strategy \in {"v1", "v2"})
           => /\ check_word(game_state, guess_word)
              /\ guess_word \notin Range(guesses)

\* play_game(goal, policy s) run alone from the state gs at turn t: the
\* turn count it returns
RECURSIVE Outcome(_, _, _, _)
Outcome(s, gs, goal, t) ==
    IF ~LoopCond(t) THEN t
    ELSE LET g == parse_strategy(s, gs)
         IN  IF IsGoal(g, goal) THEN t + 1
             ELSE Outcome(s, add_guess(gs, g, goal), goal, t + 1)

\* the sum of the counts of a histogram
RECURSIVE SumCounts(_)
SumCounts(f) ==
    IF DOMAIN f = {} THEN 0
    ELSE LET x == CHOOSE y \in DOMAIN f : TRUE
         IN  f[x] + SumCounts([y \in DOMAIN f \ {x} |-> f[y]])

\* C17: in a batch evaluation every game depends on its own word and its
\* own guesses only, whatever the other workers do meanwhile; the turn
\* counts are those of the games played alone from a fresh model, the
\* histogram counts them and sums to the corpus size, the mean is their
\* arithmetic mean and the solved count is the number of them within six
\* turns, for every interleaving of the workers.
C17_BatchIsOrderIndependent ==
    /\ (pc = "batch" /\ strategy # "v5")
           => \A i \in Jobs :
                  games[i].pc # "queued"
                      => games[i].game_state =
                             Shown(NewGameState,
                                   games[i].game_state.guesses, words[i])
    /\ pc = "reported"
           => LET out == [i \in Jobs |->
                              Outcome(strategy, NewGameState, words[i], 0)]
              IN  /\ word_difficulty = out
                  /\ DOMAIN report[1] = Range(out)
                  /\ \A t \in DOMAIN report[1] :
                         report[1][t] =
                             Cardinality({i \in Jobs : out[i] = t})
                  /\ SumCounts(report[1]) = Len(words)
                  /\ report[2][2] > 0
                  /\ report[2][1] * Len(out) = sum(out) * report[2][2]
                  /\ report[3] = Cardinality({i \in Jobs : out[i] <= 6})

\* a batch has reported a histogram with more than one turn count
C17_Witness == pc = "reported" /\ Cardinality(DOMAIN report[1]) >= 2

====
